---- MODULE Spec2Model ----
(***************************************************************************)
(* A model of storages/backends/azure_storage.py: the blob-name pipeline   *)
(* (clean_name -> safe_join -> _get_valid_path), the buffered file handle  *)
(* AzureStorageFile and the AzureStorage facade over a blob container.     *)
(*                                                                         *)
(* Strings are sequences of one-character strings, so that strip, count,   *)
(* split and the 'x' in mode tests are computed character by character.    *)
(***************************************************************************)
EXTENDS Integers, Sequences, FiniteSets, TLC

VARIABLES
    location,   \* AzureStorage.location (the configured root prefix)
    expiration_secs, \* AzureStorage.expiration_secs (the default URL expiry)
    blobs,      \* the container: blob name -> content, for the blobs that exist
    clients,    \* AzureStorage._service and AzureStorage._custom_service
    handles,    \* handle slot -> the AzureStorageFile living there, if any
    last,       \* the latest operation: what it was called with and what came back
    arg,        \* input of the pure-function specifications
    out         \* output of the pure-function specifications

vars == <<location, expiration_secs, blobs, clients, handles, last, arg, out>>

(***************************************************************************)
(* Bounds of the model and constants of the program.                       *)
(***************************************************************************)
\* longest raw name drawn for the normalization specification
MaxLen == 4
\* longest run of '.' and '/' padding put around a name for the validator
MaxPad == 2
\* largest number of bytes a buffer or a blob holds
MaxData == 2
_AZURE_NAME_MAX_LEN == 1024
_AZURE_MAX_SLASHES == 256

(***************************************************************************)
(* Characters and strings.                                                 *)
(***************************************************************************)
\* the characters s.strip('./') removes
StripChars == {".", "/"}

Ok(v) == [err |-> "none", v |-> v]
\* no result yet
Pending == [err |-> "pending", v |-> <<>>]
Err(e) == [err |-> e, v |-> <<>>]

\* a local variable: x, computed once, under the name F gives it
With(x, F(_)) == F(x)

\* c in s
Has(s, c) == \E i \in 1..Len(s) : s[i] = c

\* s.count(c)
count(s, c) == Cardinality({i \in 1..Len(s) : s[i] = c})

\* s.strip('./')
strip(s) ==
    IF \A i \in 1..Len(s) : s[i] \in StripChars THEN <<>>
    ELSE LET first == CHOOSE i \in 1..Len(s) :
                          /\ s[i] \notin StripChars
                          /\ \A j \in 1..(i-1) : s[j] \in StripChars
             final == CHOOSE i \in 1..Len(s) :
                          /\ s[i] \notin StripChars
                          /\ \A j \in (i+1)..Len(s) : s[j] \in StripChars
         IN SubSeq(s, first, final)

\* s.split('/')
RECURSIVE Split(_)
Split(s) ==
    IF ~Has(s, "/") THEN <<s>>
    ELSE LET k == CHOOSE i \in 1..Len(s) :
                      s[i] = "/" /\ \A j \in 1..(i-1) : s[j] # "/"
         IN <<SubSeq(s, 1, k-1)>> \o Split(SubSeq(s, k+1, Len(s)))

\* '/'.join(segs)
RECURSIVE Join(_)
Join(segs) ==
    IF segs = <<>> THEN <<>>
    ELSE IF Len(segs) = 1 THEN segs[1]
    ELSE segs[1] \o <<"/">> \o Join(Tail(segs))

DotDot == <<".", ".">>

\* Resolve '.', '..' and empty segments from left to right; a '..' with nothing
\* left to cancel stays in front (the path points above its start).
RECURSIVE ResolveSegs(_, _)
ResolveSegs(segs, acc) ==
    IF segs = <<>> THEN acc
    ELSE LET seg == Head(segs)
             rest == Tail(segs)
         IN IF seg = <<>> \/ seg = <<".">> THEN ResolveSegs(rest, acc)
            ELSE IF seg = DotDot
                 THEN IF acc # <<>> /\ acc[Len(acc)] # DotDot
                      THEN ResolveSegs(rest, SubSeq(acc, 1, Len(acc)-1))
                      ELSE ResolveSegs(rest, Append(acc, seg))
                 ELSE ResolveSegs(rest, Append(acc, seg))

IsAbsolute(s) == s # <<>> /\ s[1] = "/"

IsPrefixSeq(p, s) == Len(p) <= Len(s) /\ SubSeq(s, 1, Len(p)) = p

(***************************************************************************)
(* The path validator, module function _get_valid_path.                    *)
(***************************************************************************)
get_valid_path_len_off_by_one(s0) ==
    LET s == strip(s0)
    IN IF Len(s) >= _AZURE_NAME_MAX_LEN THEN Err("ValueError")
       ELSE IF Len(s) = 0 THEN Err("ValueError")
       ELSE IF count(s, "/") > _AZURE_MAX_SLASHES THEN Err("ValueError")
       ELSE Ok(s)

_get_valid_path(s0) ==
    LET s == strip(s0)
    IN IF Len(s) > _AZURE_NAME_MAX_LEN THEN Err("ValueError")
       ELSE IF Len(s) = 0 THEN Err("ValueError")
       ELSE IF count(s, "/") > _AZURE_MAX_SLASHES THEN Err("ValueError")
       ELSE Ok(s)

(***************************************************************************)
(* storages.utils: clean_name and safe_join.                               *)
(***************************************************************************)
\* clean_name(name): collapse redundant separators and relative components
clean_name(name) ==
    (IF IsAbsolute(name) THEN <<"/">> ELSE <<>>)
        \o Join(ResolveSegs(Split(name), <<>>))

\* the segments of the root prefix
BaseSegs(base) == SelectSeq(Split(base), LAMBDA g : g # <<>>)

\* safe_join(base, name): join name to base resolving '.' and '..'; ValueError
\* when the resolved path is not inside base
safe_join(base, name) ==
    With(ResolveSegs(BaseSegs(base) \o Split(name), <<>>), LAMBDA r :
        IF IsAbsolute(name) THEN Err("ValueError")
        ELSE IF r # <<>> /\ r[1] = DotDot THEN Err("ValueError")
        ELSE IF ~IsPrefixSeq(BaseSegs(base), r) THEN Err("ValueError")
        ELSE Ok(Join(r)))

(***************************************************************************)
(* AzureStorage._normalize_name and AzureStorage._get_valid_path.          *)
(***************************************************************************)
normalize_name_keeps_ValueError(loc, name) == safe_join(loc, name)

_normalize_name(loc, name) ==
    With(safe_join(loc, name), LAMBDA r :
        IF r.err = "ValueError" THEN Err("SuspiciousOperation") ELSE r)

AzureStorage_get_valid_path(loc, name) ==
    With(_normalize_name(loc, clean_name(name)), LAMBDA n :
        IF n.err # "none" THEN n ELSE _get_valid_path(n.v))

(***************************************************************************)
(* The storage state: the container, the cached clients, the handles.      *)
(***************************************************************************)
\* the root prefixes the storage is configured with: none, or the directory r
Locations == {<<>>, <<"r">>}

\* handle slots
Handles == {"h1"}

\* self._file = None
NoFile == [open |-> FALSE, data |-> <<>>, pos |-> 0]

\* a slot with no AzureStorageFile in it
NoHandle ==
    [state |-> "none", name |-> <<>>, mode |-> <<>>, path |-> <<>>,
     is_dirty |-> FALSE, file |-> NoFile,
     wrote |-> FALSE, closed |-> FALSE]

\* AzureStorage.__init__
NoClients == [service |-> "None", custom_service |-> "None"]

\* what an operation leaves behind for the properties to read
Last(op, h, name, err) ==
    [op |-> op, h |-> h, name |-> name, err |-> err, calls |-> <<>>, ret |-> <<>>]

\* an optional number: None, or a value
Nothing == [some |-> FALSE, v |-> 0]
Some(n) == [some |-> TRUE, v |-> n]

NoOp == Last("none", "", <<>>, "none")

StorageIdle ==
    /\ location \in Locations
    /\ expiration_secs = Nothing
    /\ blobs = [p \in {} |-> <<>>]
    /\ clients = NoClients
    /\ handles = [h \in Handles |-> NoHandle]
    /\ last = NoOp

(***************************************************************************)
(* SpecValidate: the path validator applied to padded names around the     *)
(* length and separator limits.                                            *)
(***************************************************************************)
\* runs of '.' and '/' of length at most MaxPad
RECURSIVE PadsOfLen(_)
PadsOfLen(n) ==
    IF n = 0 THEN {<<>>}
    ELSE {Append(p, c) : p \in PadsOfLen(n-1), c \in StripChars}

Pads == UNION {PadsOfLen(n) : n \in 0..MaxPad}

\* a name of n characters with k separators that begins and ends with a letter:
\* "a/" k times, then letters
Body(n, k) == [i \in 1..n |-> IF i <= 2*k /\ i % 2 = 0 THEN "/" ELSE "a"]

BodyLens == 0..3 \cup ((_AZURE_NAME_MAX_LEN - 1)..(_AZURE_NAME_MAX_LEN + 1))
BodySlashes == 0..1 \cup ((_AZURE_MAX_SLASHES - 1)..(_AZURE_MAX_SLASHES + 1))

InitValidate ==
    /\ StorageIdle
    /\ \E n \in BodyLens, k \in BodySlashes, lead \in Pads, trail \in Pads :
          /\ n = 0 \/ n >= 2*k + 1
          /\ n = 0 => k = 0
          /\ arg = [lead |-> lead, n |-> n, k |-> k, trail |-> trail,
                    raw |-> lead \o Body(n, k) \o trail]
    /\ out = Pending

Validate ==
    /\ out = Pending
    /\ out' = _get_valid_path(arg.raw)
    /\ UNCHANGED <<location, expiration_secs, blobs, clients, handles, last, arg>>

NextValidate == Validate

SpecValidate == InitValidate /\ [][NextValidate]_vars

\* C10: validate(raw) returns the stripped name s exactly when 1 <= len(s) <= 1024
\* and s holds at most 256 '/', and raises the validation error otherwise.
\* The stripped name is known from how the input was built: the padding is made
\* of '.' and '/' only and the body begins and ends with a letter.
C10_ValidatorResult ==
    out # Pending =>
        IF /\ 1 <= arg.n /\ arg.n <= 1024
           /\ arg.k <= 256
        THEN out = Ok(Body(arg.n, arg.k))
        ELSE out = Err("ValueError")

\* a name of exactly 1024 characters with exactly 256 separators, padded on both
\* sides, has been accepted
C10_Witness ==
    /\ out # Pending
    /\ arg.n = 1024 /\ arg.k = 256
    /\ arg.lead # <<>> /\ arg.trail # <<>>
    /\ out.err = "none" /\ Len(out.v) = 1024

(***************************************************************************)
(* SpecNormalize: AzureStorage._get_valid_path applied to a raw name and   *)
(* then to its own result.                                                 *)
(***************************************************************************)
NameChars == {"a", ".", "/"}

RECURSIVE StringsOfLen(_)
StringsOfLen(n) ==
    IF n = 0 THEN {<<>>}
    ELSE {Append(p, c) : p \in StringsOfLen(n-1), c \in NameChars}

RawNames == UNION {StringsOfLen(n) : n \in 0..MaxLen}

\* p is a relative path that is a valid blob name by itself
ValidRelative(p) ==
    ~IsAbsolute(p) /\ AzureStorage_get_valid_path(<<>>, p).err = "none"

InitNormalize ==
    /\ StorageIdle
    /\ arg \in {[raw |-> n] : n \in RawNames}
    /\ out = [r1 |-> Pending, r2 |-> Pending]

Normalize ==
    /\ out.r1 = Pending
    /\ out' = [out EXCEPT !.r1 = AzureStorage_get_valid_path(location, arg.raw)]
    /\ UNCHANGED <<location, expiration_secs, blobs, clients, handles, last, arg>>

NormalizeAgain ==
    /\ out.r1.err = "none"
    /\ out.r2 = Pending
    /\ out' = [out EXCEPT !.r2 = AzureStorage_get_valid_path(location, out.r1.v)]
    /\ UNCHANGED <<location, expiration_secs, blobs, clients, handles, last, arg>>

NextNormalize == Normalize \/ NormalizeAgain

SpecNormalize == InitNormalize /\ [][NextNormalize]_vars

\* C9: for every root prefix and every valid relative path p, normalizing the
\* result of normalization gives the same name:
\* _get_valid_path(_get_valid_path(p)) = _get_valid_path(p).
C9_IdempotentNormalization ==
    (ValidRelative(arg.raw) /\ out.r2 # Pending) => out.r2 = out.r1

\* with no root prefix configured the second normalization changes nothing
C9_IdempotentWithoutRoot ==
    (location = <<>> /\ out.r2 # Pending) => out.r2 = out.r1

(***************************************************************************)
(* The blob service as the storage sees it. Every call may fail with a     *)
(* transport error; a call on a blob that is not there answers not-found.  *)
(***************************************************************************)
Call(api, blob, outcome) ==
    [api |-> api, blob |-> blob, outcome |-> outcome,
     content_type |-> "", stream |-> <<>>]

Outcome(fail, needs_blob, path) ==
    IF fail THEN "transport"
    ELSE IF needs_blob /\ path \notin DOMAIN blobs THEN "notfound"
    ELSE "ok"

\* the exception a failed call raises
Raised(outcome) ==
    IF outcome = "transport" THEN "AzureHttpError"
    ELSE "AzureMissingResourceHttpError"

Put(store, path, data) ==
    [p \in DOMAIN store \cup {path} |-> IF p = path THEN data ELSE store[p]]

Remove(store, path) == [p \in DOMAIN store \ {path} |-> store[p]]

\* the service property: the primary client, built on first use
service == [clients EXCEPT !.service = "BlockBlobService"]

\* the custom_service property: the signing client, built on first use
custom_service == [clients EXCEPT !.custom_service = "BlockBlobService"]

(***************************************************************************)
(* Content handed to _save and to write.                                   *)
(***************************************************************************)
\* what write() is given: bytes, or text that force_bytes encodes
Contents ==
    {[kind |-> "bytes", bytes |-> <<1>>, text |-> <<>>],
     [kind |-> "text", bytes |-> <<>>, text |-> <<"b">>]}

\* the code point of a character
Ord(c) == IF c = "b" THEN 2 ELSE 1

\* django.utils.encoding.force_bytes
force_bytes(content) ==
    IF content.kind = "bytes" THEN content.bytes
    ELSE [i \in 1..Len(content.text) |-> Ord(content.text[i])]

\* the SpooledTemporaryFile a handle passes to _save: not a django File, with
\* neither a file nor a content_type attribute
Spooled(file) ==
    [data |-> file.data, pos |-> file.pos, is_File |-> FALSE,
     content_type |-> "absent", file_content_type |-> "absent"]

\* _content_type(content): "None" when nothing is found
_content_type(content) ==
    IF content.file_content_type # "absent" THEN content.file_content_type
    ELSE IF content.content_type # "absent" THEN content.content_type
    ELSE "None"

\* mimetypes.guess_type(name)[0]: names ending in ".a" have a known type
guess_type(name) ==
    IF Len(name) >= 2 /\ SubSeq(name, Len(name)-1, Len(name)) = <<".", "a">>
    THEN "application/a" ELSE "None"

default_content_type == "application/octet-stream"

\* what a stream yields when read from its position to its end
FromPos(f) == SubSeq(f.data, f.pos + 1, Len(f.data))

(***************************************************************************)
(* AzureStorage._save                                                      *)
(***************************************************************************)
save_returns_blob_name(name, content, fail) ==
    With(AzureStorage_get_valid_path(location, name), LAMBDA p :
    LET cleaned_name == clean_name(name)
        guessed == guess_type(p.v)
        ct == IF _content_type(content) # "None" THEN _content_type(content)
              ELSE IF guessed # "None" THEN guessed
              ELSE default_content_type
        o == Outcome(fail, FALSE, p.v)
        \* content.seek(0), and the upload reads the stream from there
        stream == FromPos([content EXCEPT !.pos = 0])
        call == [Call("create_blob_from_stream", p.v, o) EXCEPT
                    !.content_type = ct, !.stream = stream]
    IN IF p.err # "none"
       THEN [err |-> p.err, ret |-> <<>>, blobs |-> blobs, clients |-> clients,
             calls |-> <<>>]
       ELSE IF o # "ok"
       THEN [err |-> Raised(o), ret |-> <<>>, blobs |-> blobs,
             clients |-> service, calls |-> <<call>>]
       ELSE [err |-> "none", ret |-> p.v,
             blobs |-> Put(blobs, p.v, stream),
             clients |-> service, calls |-> <<call>>])

\* the result of _save: the exception or the returned name, the store and the
\* clients afterwards, the calls made
_save(name, content, fail) ==
    With(AzureStorage_get_valid_path(location, name), LAMBDA p :
    LET cleaned_name == clean_name(name)
        guessed == guess_type(p.v)
        ct == IF _content_type(content) # "None" THEN _content_type(content)
              ELSE IF guessed # "None" THEN guessed
              ELSE default_content_type
        o == Outcome(fail, FALSE, p.v)
        \* content.seek(0), and the upload reads the stream from there
        stream == FromPos([content EXCEPT !.pos = 0])
        call == [Call("create_blob_from_stream", p.v, o) EXCEPT
                    !.content_type = ct, !.stream = stream]
    IN IF p.err # "none"
       THEN [err |-> p.err, ret |-> <<>>, blobs |-> blobs, clients |-> clients,
             calls |-> <<>>]
       ELSE IF o # "ok"
       THEN [err |-> Raised(o), ret |-> <<>>, blobs |-> blobs,
             clients |-> service, calls |-> <<call>>]
       ELSE [err |-> "none", ret |-> cleaned_name,
             blobs |-> Put(blobs, p.v, stream),
             clients |-> service, calls |-> <<call>>])

(***************************************************************************)
(* AzureStorageFile                                                        *)
(***************************************************************************)
\* the modes a handle is opened with
Modes == {<<"r">>, <<"w">>, <<"a">>, <<"r", "+">>, <<"w", "+">>, <<"x">>}

get_file_without_rewind(hd, fail) ==
    LET o == Outcome(fail, TRUE, hd.path)
        call == Call("get_blob_to_stream", hd.path, o)
    IN IF hd.file.open
       THEN [err |-> "none", file |-> hd.file, calls |-> <<>>, clients |-> clients]
       ELSE IF Has(hd.mode, "r") \/ Has(hd.mode, "a")
       THEN IF o # "ok"
            THEN [err |-> Raised(o), file |-> NoFile, calls |-> <<call>>,
                  clients |-> service]
            ELSE [err |-> "none",
                  file |-> [open |-> TRUE, data |-> blobs[hd.path],
                            pos |-> Len(blobs[hd.path])],
                  calls |-> <<call>>, clients |-> service]
       ELSE [err |-> "none", file |-> [open |-> TRUE, data |-> <<>>, pos |-> 0],
             calls |-> <<>>, clients |-> clients]

get_file_fetches_in_every_mode(hd, fail) ==
    LET o == Outcome(fail, TRUE, hd.path)
        call == Call("get_blob_to_stream", hd.path, o)
    IN IF hd.file.open
       THEN [err |-> "none", file |-> hd.file, calls |-> <<>>, clients |-> clients]
       ELSE IF TRUE
       THEN IF o # "ok"
            THEN [err |-> Raised(o), file |-> NoFile, calls |-> <<call>>,
                  clients |-> service]
            ELSE [err |-> "none",
                  file |-> [open |-> TRUE, data |-> blobs[hd.path],
                            pos |-> IF Has(hd.mode, "r") THEN 0
                                    ELSE Len(blobs[hd.path])],
                  calls |-> <<call>>, clients |-> service]
       ELSE [err |-> "none", file |-> [open |-> TRUE, data |-> <<>>, pos |-> 0],
             calls |-> <<>>, clients |-> clients]

\* AzureStorageFile._get_file: the buffer, fetched on first access
_get_file(hd, fail) ==
    LET o == Outcome(fail, TRUE, hd.path)
        call == Call("get_blob_to_stream", hd.path, o)
    IN IF hd.file.open
       THEN [err |-> "none", file |-> hd.file, calls |-> <<>>, clients |-> clients]
       ELSE IF Has(hd.mode, "r") \/ Has(hd.mode, "a")
       THEN IF o # "ok"
            THEN [err |-> Raised(o), file |-> NoFile, calls |-> <<call>>,
                  clients |-> service]
            ELSE [err |-> "none",
                  file |-> [open |-> TRUE, data |-> blobs[hd.path],
                            pos |-> IF Has(hd.mode, "r") THEN 0
                                    ELSE Len(blobs[hd.path])],
                  calls |-> <<call>>, clients |-> service]
       ELSE [err |-> "none", file |-> [open |-> TRUE, data |-> <<>>, pos |-> 0],
             calls |-> <<>>, clients |-> clients]

\* file.write(b) at the current position
WriteAt(file, b) ==
    LET n == file.pos + Len(b)
        len == IF n > Len(file.data) THEN n ELSE Len(file.data)
    IN [open |-> TRUE,
        data |-> [i \in 1..len |->
                    IF i <= file.pos THEN file.data[i]
                    ELSE IF i <= n THEN b[i - file.pos]
                    ELSE file.data[i]],
        pos |-> n]

\* file.read(): everything from the current position on
ReadAll(file) == FromPos(file)

\* AzureStorageFile.__init__
AzureStorageFile(name, mode, path) ==
    [state |-> "open", name |-> name, mode |-> mode, path |-> path,
     is_dirty |-> FALSE, file |-> NoFile,
     wrote |-> FALSE, closed |-> FALSE]

\* AzureStorage._open(name, mode)
OpenStep(h, name, mode) ==
    \E p \in {AzureStorage_get_valid_path(location, name)} :
       /\ handles' = IF p.err # "none" THEN handles
                     ELSE [handles EXCEPT ![h] = AzureStorageFile(name, mode, p.v)]
       /\ last' = Last("open", h, name, p.err)
       /\ UNCHANGED <<location, expiration_secs, blobs, clients>>

Open(h, name, mode) == OpenStep(h, name, mode) /\ UNCHANGED <<arg, out>>

\* the handle after read(), and what read() returned or raised
read(hd, fail) ==
    LET g == _get_file(hd, fail)
    IN IF ~Has(hd.mode, "r") /\ ~Has(hd.mode, "a")
       THEN [err |-> "AttributeError", hd |-> hd, ret |-> <<>>, calls |-> <<>>,
             clients |-> clients]
       ELSE IF g.err # "none"
       THEN [err |-> g.err, hd |-> hd, ret |-> <<>>, calls |-> g.calls,
             clients |-> g.clients]
       ELSE [err |-> "none",
             hd |-> [hd EXCEPT !.file = [g.file EXCEPT !.pos = Len(g.file.data)]],
             ret |-> ReadAll(g.file), calls |-> g.calls, clients |-> g.clients]

ReadStep(h, fail) ==
    \E r \in {read(handles[h], fail)} :
       /\ handles[h].state = "open"
       /\ handles' = [handles EXCEPT ![h] = r.hd]
       /\ clients' = r.clients
       /\ last' = [Last("read", h, handles[h].name, r.err) EXCEPT
                      !.calls = r.calls, !.ret = r.ret]
       /\ UNCHANGED <<location, expiration_secs, blobs>>

Read(h, fail) == ReadStep(h, fail) /\ UNCHANGED <<arg, out>>

write_marks_dirty_before_check(hd, content, fail) ==
    LET g == _get_file(hd, fail)
        b == force_bytes(content)
    IN IF ~Has(hd.mode, "w") /\ ~Has(hd.mode, "+") /\ ~Has(hd.mode, "a")
       THEN [err |-> "AttributeError", hd |-> [hd EXCEPT !.is_dirty = TRUE],
             calls |-> <<>>, clients |-> clients]
       ELSE IF g.err # "none"
       THEN [err |-> g.err, hd |-> [hd EXCEPT !.is_dirty = TRUE],
             calls |-> g.calls, clients |-> g.clients]
       ELSE [err |-> "none",
             hd |-> [hd EXCEPT !.is_dirty = TRUE,
                               !.file = WriteAt(g.file, b),
                               !.wrote = TRUE],
             calls |-> g.calls, clients |-> g.clients]

\* the handle after write(content), and what write() raised
write(hd, content, fail) ==
    LET g == _get_file(hd, fail)
        b == force_bytes(content)
    IN IF ~Has(hd.mode, "w") /\ ~Has(hd.mode, "+") /\ ~Has(hd.mode, "a")
       THEN [err |-> "AttributeError", hd |-> hd, calls |-> <<>>,
             clients |-> clients]
       ELSE IF g.err # "none"
       THEN [err |-> g.err, hd |-> [hd EXCEPT !.is_dirty = TRUE],
             calls |-> g.calls, clients |-> g.clients]
       ELSE [err |-> "none",
             hd |-> [hd EXCEPT !.is_dirty = TRUE,
                               !.file = WriteAt(g.file, b),
                               !.wrote = TRUE],
             calls |-> g.calls, clients |-> g.clients]

WriteStep(h, content, fail) ==
    \E r \in {write(handles[h], content, fail)} :
       /\ handles[h].state = "open"
       /\ Len(r.hd.file.data) <= MaxData
       /\ handles' = [handles EXCEPT ![h] = r.hd]
       /\ clients' = r.clients
       /\ last' = [Last("write", h, handles[h].name, r.err) EXCEPT
                      !.calls = r.calls]
       /\ UNCHANGED <<location, expiration_secs, blobs>>

Write(h, content, fail) == WriteStep(h, content, fail) /\ UNCHANGED <<arg, out>>

close_keeps_buffer(hd, fail) ==
    LET rewound == [hd.file EXCEPT !.pos = 0]
    IN With(_save(hd.name, Spooled(rewound), fail), LAMBDA s :
       IF ~hd.file.open
       THEN [err |-> "none", hd |-> hd, blobs |-> blobs, clients |-> clients,
             calls |-> <<>>]
       ELSE IF hd.is_dirty /\ s.err # "none"
       THEN [err |-> s.err, hd |-> [hd EXCEPT !.file = rewound],
             blobs |-> s.blobs, clients |-> s.clients, calls |-> s.calls]
       ELSE [err |-> "none",
             hd |-> [hd EXCEPT !.is_dirty = FALSE, !.closed = TRUE],
             blobs |-> IF hd.is_dirty THEN s.blobs ELSE blobs,
             clients |-> IF hd.is_dirty THEN s.clients ELSE clients,
             calls |-> IF hd.is_dirty THEN s.calls ELSE <<>>])

close_saves_without_buffer(hd, fail) ==
    LET rewound == [hd.file EXCEPT !.pos = 0]
    IN With(_save(hd.name, Spooled(rewound), fail), LAMBDA s :
       IF ~hd.file.open /\ ~hd.is_dirty
       THEN [err |-> "none", hd |-> hd, blobs |-> blobs, clients |-> clients,
             calls |-> <<>>]
       ELSE IF hd.is_dirty /\ s.err # "none"
       THEN [err |-> s.err, hd |-> [hd EXCEPT !.file = rewound],
             blobs |-> s.blobs, clients |-> s.clients, calls |-> s.calls]
       ELSE [err |-> "none",
             hd |-> [hd EXCEPT !.is_dirty = FALSE, !.file = NoFile,
                               !.closed = TRUE],
             blobs |-> IF hd.is_dirty THEN s.blobs ELSE blobs,
             clients |-> IF hd.is_dirty THEN s.clients ELSE clients,
             calls |-> IF hd.is_dirty THEN s.calls ELSE <<>>])

\* the handle and the store after close(), and what close() raised
close(hd, fail) ==
    LET rewound == [hd.file EXCEPT !.pos = 0]
    IN With(_save(hd.name, Spooled(rewound), fail), LAMBDA s :
       IF ~hd.file.open
       THEN [err |-> "none", hd |-> hd, blobs |-> blobs, clients |-> clients,
             calls |-> <<>>]
       ELSE IF hd.is_dirty /\ s.err # "none"
       THEN [err |-> s.err, hd |-> [hd EXCEPT !.file = rewound],
             blobs |-> s.blobs, clients |-> s.clients, calls |-> s.calls]
       ELSE [err |-> "none",
             hd |-> [hd EXCEPT !.is_dirty = FALSE, !.file = NoFile,
                               !.closed = TRUE],
             blobs |-> IF hd.is_dirty THEN s.blobs ELSE blobs,
             clients |-> IF hd.is_dirty THEN s.clients ELSE clients,
             calls |-> IF hd.is_dirty THEN s.calls ELSE <<>>])

CloseStep(h, fail) ==
    \E r \in {close(handles[h], fail)} :
       /\ handles[h].state = "open"
       /\ handles' = [handles EXCEPT ![h] = r.hd]
       /\ blobs' = r.blobs
       /\ clients' = r.clients
       /\ last' = [Last("close", h, handles[h].name, r.err) EXCEPT !.calls = r.calls]
       /\ UNCHANGED <<location, expiration_secs>>

Close(h, fail) == CloseStep(h, fail) /\ UNCHANGED <<arg, out>>

(***************************************************************************)
(* AzureStorage: the facade operations.                                    *)
(***************************************************************************)
\* AzureStorage.exists(name)
exists(name, fail) ==
    With(AzureStorage_get_valid_path(location, name), LAMBDA p :
    LET o == Outcome(fail, FALSE, p.v)
    IN IF p.err # "none" THEN [err |-> p.err, ret |-> FALSE, calls |-> <<>>]
       ELSE IF o # "ok"
       THEN [err |-> Raised(o), ret |-> FALSE,
             calls |-> <<Call("exists", p.v, o)>>]
       ELSE [err |-> "none", ret |-> p.v \in DOMAIN blobs,
             calls |-> <<Call("exists", p.v, o)>>])

Exists(name, fail) ==
    \E r \in {exists(name, fail)} :
       /\ clients' = service
       /\ last' = [Last("exists", "", name, r.err) EXCEPT
                      !.calls = r.calls, !.ret = r.ret]
       /\ UNCHANGED <<location, expiration_secs, blobs, handles, arg, out>>

delete_swallows_every_error(name, fail) ==
    With(AzureStorage_get_valid_path(location, name), LAMBDA p :
    LET o == Outcome(fail, TRUE, p.v)
    IN IF p.err # "none" THEN [err |-> p.err, blobs |-> blobs, calls |-> <<>>]
       ELSE [err |-> "none",
             blobs |-> IF o = "ok" THEN Remove(blobs, p.v) ELSE blobs,
             calls |-> <<Call("delete_blob", p.v, o)>>])

delete_raises_not_found(name, fail) ==
    With(AzureStorage_get_valid_path(location, name), LAMBDA p :
    LET o == Outcome(fail, TRUE, p.v)
    IN IF p.err # "none" THEN [err |-> p.err, blobs |-> blobs, calls |-> <<>>]
       ELSE [err |-> IF o = "ok" THEN "none" ELSE Raised(o),
             blobs |-> IF o = "ok" THEN Remove(blobs, p.v) ELSE blobs,
             calls |-> <<Call("delete_blob", p.v, o)>>])

\* AzureStorage.delete(name)
delete(name, fail) ==
    With(AzureStorage_get_valid_path(location, name), LAMBDA p :
    LET o == Outcome(fail, TRUE, p.v)
    IN IF p.err # "none" THEN [err |-> p.err, blobs |-> blobs, calls |-> <<>>]
       ELSE IF o = "notfound"
       THEN [err |-> "none", blobs |-> blobs,
             calls |-> <<Call("delete_blob", p.v, o)>>]
       ELSE IF o # "ok"
       THEN [err |-> Raised(o), blobs |-> blobs,
             calls |-> <<Call("delete_blob", p.v, o)>>]
       ELSE [err |-> "none", blobs |-> Remove(blobs, p.v),
             calls |-> <<Call("delete_blob", p.v, o)>>])

Delete(name, fail) ==
    \E r \in {delete(name, fail)} :
       /\ clients' = service
       /\ blobs' = r.blobs
       /\ last' = [Last("delete", "", name, r.err) EXCEPT !.calls = r.calls]
       /\ UNCHANGED <<location, expiration_secs, handles, arg, out>>

\* the get_blob_properties call size and get_modified_time make
get_blob_properties(name, fail) ==
    With(AzureStorage_get_valid_path(location, name), LAMBDA p :
    LET o == Outcome(fail, TRUE, p.v)
    IN IF p.err # "none" THEN [err |-> p.err, path |-> <<>>, calls |-> <<>>]
       ELSE [err |-> IF o = "ok" THEN "none" ELSE Raised(o), path |-> p.v,
             calls |-> <<Call("get_blob_properties", p.v, o)>>])

\* AzureStorage.size(name)
size(name, fail) ==
    With(get_blob_properties(name, fail), LAMBDA g :
       [err |-> g.err, calls |-> g.calls,
        ret |-> IF g.err = "none" THEN Len(blobs[g.path]) ELSE 0])

Size(name, fail) ==
    \E r \in {size(name, fail)} :
       /\ clients' = service
       /\ last' = [Last("size", "", name, r.err) EXCEPT
                      !.calls = r.calls, !.ret = r.ret]
       /\ UNCHANGED <<location, expiration_secs, blobs, handles, arg, out>>

\* AzureStorage.get_modified_time(name): the blob's last_modified, aware when
\* USE_TZ is set and naive otherwise
get_modified_time(name, use_tz, fail) ==
    With(get_blob_properties(name, fail), LAMBDA g :
       [err |-> g.err, calls |-> g.calls,
        ret |-> [last_modified_of |-> g.path, aware |-> g.err = "none" /\ use_tz]])

GetModifiedTime(name, use_tz, fail) ==
    \E r \in {get_modified_time(name, use_tz, fail)} :
       /\ clients' = service
       /\ last' = [Last("get_modified_time", "", name, r.err) EXCEPT
                      !.calls = r.calls, !.ret = r.ret]
       /\ UNCHANGED <<location, expiration_secs, blobs, handles, arg, out>>

\* content sources handed to _save by the caller
SaveContents ==
    {[data |-> <<2>>, pos |-> 1, is_File |-> TRUE,
      content_type |-> "absent", file_content_type |-> "absent"]}

SaveStep(name, content, fail) ==
    \E r \in {_save(name, content, fail)} :
       /\ blobs' = r.blobs
       /\ clients' = r.clients
       /\ last' = [Last("_save", "", name, r.err) EXCEPT
                      !.calls = r.calls, !.ret = r.ret]
       /\ UNCHANGED <<location, expiration_secs, handles>>

Save(name, content, fail) == SaveStep(name, content, fail) /\ UNCHANGED <<arg, out>>

\* the readings of the clock
Times == {100, 250}

\* the expire argument of url
Expires == {Nothing, Some(0), Some(60)}

\* AzureStorage._expire_at(expire)
_expire_at(now, expire) == now + expire

url_falls_back_on_zero(name, expire_arg, now) ==
    With(AzureStorage_get_valid_path(location, name), LAMBDA p :
    LET expire == IF ~expire_arg.some \/ expire_arg.v = 0 THEN expiration_secs
                  ELSE expire_arg
        signed == expire.some /\ expire.v # 0
        sas == [blob |-> p.v, permission |-> "READ",
                expiry |-> _expire_at(now, expire.v)]
        sign == Call("generate_blob_shared_access_signature", p.v, "ok")
        make == Call("make_blob_url", p.v, "ok")
    IN IF p.err # "none"
       THEN [err |-> p.err, ret |-> <<>>, calls |-> <<>>, clients |-> clients]
       ELSE [err |-> "none",
             ret |-> [blob |-> p.v, signed |-> signed,
                      sas_token |-> IF signed THEN sas
                                    ELSE [blob |-> <<>>, permission |-> "",
                                          expiry |-> 0]],
             calls |-> IF signed THEN <<sign, make>> ELSE <<make>>,
             clients |-> custom_service])

\* AzureStorage.url(name, expire)
url(name, expire_arg, now) ==
    With(AzureStorage_get_valid_path(location, name), LAMBDA p :
    LET expire == IF ~expire_arg.some THEN expiration_secs ELSE expire_arg
        signed == expire.some /\ expire.v # 0
        sas == [blob |-> p.v, permission |-> "READ",
                expiry |-> _expire_at(now, expire.v)]
        sign == Call("generate_blob_shared_access_signature", p.v, "ok")
        make == Call("make_blob_url", p.v, "ok")
    IN IF p.err # "none"
       THEN [err |-> p.err, ret |-> <<>>, calls |-> <<>>, clients |-> clients]
       ELSE [err |-> "none",
             ret |-> [blob |-> p.v, signed |-> signed,
                      sas_token |-> IF signed THEN sas
                                    ELSE [blob |-> <<>>, permission |-> "",
                                          expiry |-> 0]],
             calls |-> IF signed THEN <<sign, make>> ELSE <<make>>,
             clients |-> custom_service])

UrlStep(name, expire_arg, now) ==
    \E r \in {url(name, expire_arg, now)} :
       /\ clients' = r.clients
       /\ last' = [Last("url", "", name, r.err) EXCEPT
                      !.calls = r.calls, !.ret = r.ret]
       /\ UNCHANGED <<location, expiration_secs, blobs, handles>>

Url(name, expire_arg, now) == UrlStep(name, expire_arg, now) /\ UNCHANGED <<arg, out>>

\* AzureStorage.list_all(path)
list_all(path, fail) ==
    With(IF path # <<>> THEN AzureStorage_get_valid_path(location, path)
         ELSE Ok(path), LAMBDA p :
    LET prefix == IF p.v # <<>> /\ p.v[Len(p.v)] # "/" THEN Append(p.v, "/")
                  ELSE p.v
        o == Outcome(fail, FALSE, prefix)
    IN IF p.err # "none"
       THEN [err |-> p.err, ret |-> {}, calls |-> <<>>, clients |-> clients]
       ELSE [err |-> IF o = "ok" THEN "none" ELSE Raised(o),
             ret |-> IF o = "ok"
                     THEN {n \in DOMAIN blobs : IsPrefixSeq(prefix, n)} ELSE {},
             calls |-> <<Call("list_blobs", prefix, o)>>, clients |-> service])

ListAll(path, fail) ==
    \E r \in {list_all(path, fail)} :
       /\ clients' = r.clients
       /\ last' = [Last("list_all", "", path, r.err) EXCEPT
                      !.calls = r.calls, !.ret = r.ret]
       /\ UNCHANGED <<location, expiration_secs, blobs, handles, arg, out>>

\* AzureStorage.listdir(path): (dirs, files)
listdir(path, fail) ==
    With(list_all(path, fail), LAMBDA l :
    LET rest(name) == SubSeq(name, Len(path) + 1, Len(name))
    IN [err |-> l.err, calls |-> l.calls, clients |-> l.clients,
        ret |-> [dirs |-> {Split(rest(n))[1] : n \in {m \in l.ret : Has(rest(m), "/")}},
                 files |-> {rest(n) : n \in {m \in l.ret : ~Has(rest(m), "/")}}]])

Listdir(path, fail) ==
    \E r \in {listdir(path, fail)} :
       /\ clients' = r.clients
       /\ last' = [Last("listdir", "", path, r.err) EXCEPT
                      !.calls = r.calls, !.ret = r.ret]
       /\ UNCHANGED <<location, expiration_secs, blobs, handles, arg, out>>

(***************************************************************************)
(* Spec: a handle over one container, with saves and deletes of the same   *)
(* names going on beside it.                                               *)
(* SpecFacade: the facade operations over the container.                   *)
(***************************************************************************)
\* the names the handle is opened with: a plain name and a name that climbs
\* above the root
Names == {<<"a">>, <<".", ".", "/", "a">>}

\* the names the facade operations are called with
FacadeNames ==
    Names \cup {<<>>, <<"a", "/", "b">>,
                <<"a", "/", ".", ".", "/", ".", ".", "/", "b">>}

Init ==
    /\ StorageIdle
    /\ arg = <<>>
    /\ out = <<>>

Next ==
    \/ \E h \in Handles, name \in Names, mode \in Modes : Open(h, name, mode)
    \/ \E h \in Handles, fail \in BOOLEAN : Read(h, fail)
    \/ \E h \in Handles, content \in Contents, fail \in BOOLEAN :
          Write(h, content, fail)
    \/ \E h \in Handles, fail \in BOOLEAN : Close(h, fail)
    \/ \E name \in Names, content \in SaveContents, fail \in BOOLEAN :
          Save(name, content, fail)
    \/ \E name \in Names, fail \in BOOLEAN : Delete(name, fail)

Spec == Init /\ [][Next]_vars

NextFacade ==
    \/ \E h \in Handles, name \in FacadeNames : Open(h, name, <<"r">>)
    \/ \E name \in FacadeNames, fail \in BOOLEAN : Exists(name, fail)
    \/ \E name \in FacadeNames, fail \in BOOLEAN : Delete(name, fail)
    \/ \E name \in FacadeNames, fail \in BOOLEAN : Size(name, fail)
    \/ \E name \in FacadeNames, use_tz \in BOOLEAN, fail \in BOOLEAN :
          GetModifiedTime(name, use_tz, fail)
    \/ \E name \in FacadeNames, content \in SaveContents, fail \in BOOLEAN :
          Save(name, content, fail)
    \/ \E name \in FacadeNames, expire \in Expires, now \in Times :
          Url(name, expire, now)
    \/ \E path \in FacadeNames, fail \in BOOLEAN : ListAll(path, fail)
    \/ \E path \in FacadeNames, fail \in BOOLEAN : Listdir(path, fail)

SpecFacade == Init /\ [][NextFacade]_vars

(***************************************************************************)
(* Properties of the handle (Spec).                                        *)
(***************************************************************************)
\* a create_blob_from_stream call is among the calls
Saves(calls) == \E i \in 1..Len(calls) : calls[i].api = "create_blob_from_stream"

\* a get_blob_to_stream call is among the calls
Fetches(calls) == \E i \in 1..Len(calls) : calls[i].api = "get_blob_to_stream"

\* a call failed with a transport error
Transport(calls) == \E i \in 1..Len(calls) : calls[i].outcome = "transport"

\* C1: close() on a handle whose buffer is materialized always releases the
\* buffer, also when the handle is dirty and the save fails: after close()
\* returns or raises, the handle holds no open buffer.
C1_CloseAlwaysReleases ==
    last.op = "close" => ~handles[last.h].file.open

\* C3: a close() on a handle with no successful write so far issues no save,
\* and a close() on a handle whose buffer was never materialized issues no
\* backend call at all.
C3_DirtyFlagGating ==
    [][\A h \in Handles :
          (last'.op = "close" /\ last'.h = h) =>
              /\ ~handles[h].wrote => ~Saves(last'.calls)
              /\ ~handles[h].file.open => last'.calls = <<>>]_vars

\* mode with none of write, append, read+write
ReadOnlyMode(m) == ~Has(m, "w") /\ ~Has(m, "+") /\ ~Has(m, "a")

\* mode with neither read nor append
WriteOnlyMode(m) == ~Has(m, "r") /\ ~Has(m, "a")

\* C4: write() on a handle opened in a read-only mode and read() on a handle
\* opened in a write-only mode raise the mode error and leave the handle, the
\* store and the backend untouched; a close() that follows a rejected call on a
\* handle with nothing written saves nothing.
C4_ModeEnforcement ==
    [][\A h \in Handles :
          /\ ( /\ last'.h = h
               /\ \/ last'.op = "write" /\ ReadOnlyMode(handles[h].mode)
                  \/ last'.op = "read" /\ WriteOnlyMode(handles[h].mode) )
             => /\ last'.err = "AttributeError"
                /\ last'.calls = <<>>
                /\ handles' = handles
                /\ blobs' = blobs
          /\ ( /\ last'.op = "close" /\ last'.h = h
               /\ last.op \in {"read", "write"} /\ last.h = h
               /\ last.err = "AttributeError"
               /\ ~handles[h].wrote )
             => ~Saves(last'.calls)]_vars

\* a read was rejected on a handle opened with w+ that had been written to
C4_Witness ==
    /\ last.err = "AttributeError"
    /\ last.op = "read"
    /\ handles[last.h].mode = <<"w", "+">>
    /\ handles[last.h].is_dirty

MaxChunks == 2

\* what is written, with the bytes it stands for
Chunks ==
    {[content |-> [kind |-> "bytes", bytes |-> <<1>>, text |-> <<>>], is |-> <<1>>],
     [content |-> [kind |-> "bytes", bytes |-> <<>>, text |-> <<>>], is |-> <<>>],
     [content |-> [kind |-> "text", bytes |-> <<>>, text |-> <<"b">>], is |-> <<2>>]}

RECURSIVE ChunkSeqs(_)
ChunkSeqs(n) ==
    IF n = 0 THEN {<<>>}
    ELSE {Append(q, c) : q \in ChunkSeqs(n-1), c \in Chunks}

\* the bytes B a sequence of chunks stands for
RECURSIVE Bytes(_)
Bytes(chunks) ==
    IF chunks = <<>> THEN <<>> ELSE Head(chunks).is \o Bytes(Tail(chunks))

\* valid names, some of them not yet clean
RoundTripNames == {<<"a">>, <<".", "/", "a">>, <<"a", "/", "b">>, <<"a", "/", "/", "b">>}

InitRoundTrip ==
    /\ location \in Locations
    /\ expiration_secs = Nothing
    /\ clients = NoClients
    /\ handles = [h \in Handles |-> NoHandle]
    /\ last = NoOp
    /\ \E name \in RoundTripNames, n \in 1..MaxChunks, old \in BOOLEAN :
          \E chunks \in ChunkSeqs(n),
             wmode \in {<<"w">>, <<"w", "b">>}, rmode \in {<<"r">>, <<"r", "b">>} :
             /\ Len(Bytes(chunks)) <= MaxData
             /\ arg = [name |-> name, chunks |-> chunks,
                       wmode |-> wmode, rmode |-> rmode]
             \* the name may hold older content
             /\ blobs = IF old
                        THEN Put([p \in {} |-> <<>>],
                                 AzureStorage_get_valid_path(location, name).v,
                                 <<2, 1>>)
                        ELSE [p \in {} |-> <<>>]
    /\ out = [pc |-> "open_w", n |-> 0]

RT_OpenW ==
    /\ out.pc = "open_w"
    /\ \E h \in Handles : OpenStep(h, arg.name, arg.wmode)
    /\ out' = [out EXCEPT !.pc = "write"]
    /\ UNCHANGED arg

RT_Write ==
    /\ out.pc = "write"
    /\ out.n < Len(arg.chunks)
    /\ \E h \in Handles : WriteStep(h, arg.chunks[out.n + 1].content, FALSE)
    /\ out' = [out EXCEPT !.n = @ + 1]
    /\ UNCHANGED arg

RT_Close ==
    /\ out.pc = "write"
    /\ out.n = Len(arg.chunks)
    /\ \E h \in Handles : CloseStep(h, FALSE)
    /\ out' = [out EXCEPT !.pc = "open_r"]
    /\ UNCHANGED arg

RT_OpenR ==
    /\ out.pc = "open_r"
    /\ \E h \in Handles : OpenStep(h, arg.name, arg.rmode)
    /\ out' = [out EXCEPT !.pc = "read"]
    /\ UNCHANGED arg

RT_Read ==
    /\ out.pc = "read"
    /\ \E h \in Handles : ReadStep(h, FALSE)
    /\ out' = [out EXCEPT !.pc = "done"]
    /\ UNCHANGED arg

NextRoundTrip == RT_OpenW \/ RT_Write \/ RT_Close \/ RT_OpenR \/ RT_Read

SpecRoundTrip == InitRoundTrip /\ [][NextRoundTrip]_vars

\* C2: opening a valid name in write mode, writing B in one or several write
\* calls, closing, then opening the name in read mode and reading to the end
\* yields exactly B when every backend call succeeds.
C2_WriteThenRead ==
    out.pc = "done" =>
        /\ last.op = "read"
        /\ last.err = "none"
        /\ last.ret = Bytes(arg.chunks)

\* two write calls replaced older content and the bytes came back
C2_Witness ==
    /\ out.pc = "done"
    /\ Len(arg.chunks) = 2
    /\ location # <<>>
    /\ arg.name = <<"a", "/", "/", "b">>
    /\ last.ret = <<1, 2>>
    /\ blobs = Put([p \in {} |-> <<>>], <<"r", "/", "a", "/", "b">>, <<1, 2>>)

(***************************************************************************)
(* Properties of the facade (SpecFacade).                                  *)
(***************************************************************************)
PathOf(name) == AzureStorage_get_valid_path(location, name)

\* C6: delete(n) of a valid name when no object n exists completes without
\* error and leaves the store unchanged; whenever delete(n) meets no transport
\* error it completes without error and n is absent afterwards, so two deletes
\* in a row both complete without error.
C6_IdempotentDelete ==
    [][( /\ last'.op = "delete"
         /\ PathOf(last'.name).err = "none"
         /\ ~Transport(last'.calls) )
       => /\ last'.err = "none"
          /\ PathOf(last'.name).v \notin DOMAIN blobs'
          /\ PathOf(last'.name).v \notin DOMAIN blobs => blobs' = blobs
          /\ last.op = "delete" /\ last.name = last'.name /\ last.err = "none"
                => blobs' = blobs]_vars

\* a delete of a name that was not there has completed without error
C6_Witness ==
    /\ last.op = "delete"
    /\ last.err = "none"
    /\ Len(last.calls) = 1
    /\ last.calls[1].outcome = "notfound"

\* no api is called twice by one operation, and nothing follows a failed call
NoRetry(calls) ==
    /\ \A i, j \in 1..Len(calls) : calls[i].api = calls[j].api => i = j
    /\ \A i \in 1..Len(calls) : calls[i].outcome # "ok" => i = Len(calls)

\* C7: size and get_modified_time on an absent object fail with the backend's
\* not-found error, exists on an absent object returns false without raising,
\* delete (like every operation) propagates a transport error, and no
\* operation retries a failed call.
C7_NotFoundSwallowedOnlyInDelete ==
    /\ ( /\ last.op \in {"size", "get_modified_time"}
         /\ PathOf(last.name).err = "none"
         /\ PathOf(last.name).v \notin DOMAIN blobs
         /\ ~Transport(last.calls) )
       => last.err = "AzureMissingResourceHttpError"
    /\ ( /\ last.op = "exists"
         /\ PathOf(last.name).err = "none"
         /\ PathOf(last.name).v \notin DOMAIN blobs
         /\ ~Transport(last.calls) )
       => (last.err = "none" /\ last.ret = FALSE)
    /\ Transport(last.calls) => last.err = "AzureHttpError"
    /\ NoRetry(last.calls)

\* size of an absent object has raised not-found after a single call
C7_Witness ==
    /\ last.op = "size"
    /\ last.err = "AzureMissingResourceHttpError"
    /\ Len(last.calls) = 1

\* the path of name, resolved against the root, lies above or outside the root
Escapes(root, name) ==
    LET joined == IF root = <<>> THEN name ELSE root \o <<"/">> \o name
        r == ResolveSegs(Split(joined), <<>>)
    IN \/ r # <<>> /\ r[1] = DotDot
       \/ ~IsPrefixSeq(BaseSegs(root), r)

\* C8: for a name whose resolved path lies above or outside the root, every
\* facade operation raises the security error, issues no backend call and
\* changes neither the store nor a handle.
C8_RootEscapeRejected ==
    [][(last'.op # "none" /\ Escapes(location, last'.name))
       => /\ last'.err = "SuspiciousOperation"
          /\ last'.calls = <<>>
          /\ blobs' = blobs
          /\ handles' = handles]_vars

\* a save under a name that climbs out of a non-empty root has been refused
C8_Witness ==
    /\ last.op = "_save"
    /\ location # <<>>
    /\ last.name = <<"a", "/", ".", ".", "/", ".", ".", "/", "b">>
    /\ last.err = "SuspiciousOperation"

(***************************************************************************)
(* SpecListdir: listings of a container that already holds objects, some   *)
(* of them outside the directory r.                                        *)
(***************************************************************************)
\* the objects the container may hold: a/b, a/c/d, e, r/a/b, r/e
ContainerNames ==
    {<<"a", "/", "b">>, <<"a", "/", "c", "/", "d">>, <<"e">>,
     <<"r", "/", "a", "/", "b">>, <<"r", "/", "e">>}

\* the path arguments of list_all and listdir
ListPaths == {<<>>, <<"a">>, <<"a", "/">>, <<"a", "/", "c">>}

InitListdir ==
    /\ location \in Locations
    /\ expiration_secs = Nothing
    /\ \E held \in SUBSET ContainerNames : blobs = [n \in held |-> <<1>>]
    /\ clients = NoClients
    /\ handles = [h \in Handles |-> NoHandle]
    /\ last = NoOp
    /\ arg = <<>>
    /\ out = <<>>

NextListdir ==
    \/ \E path \in ListPaths, fail \in BOOLEAN : ListAll(path, fail)
    \/ \E path \in ListPaths, fail \in BOOLEAN : Listdir(path, fail)

SpecListdir == InitListdir /\ [][NextListdir]_vars

\* the root prefix as a directory: empty, or the location and a separator
RootDir == IF location = <<>> THEN <<>> ELSE Append(location, "/")

\* the directory a path argument names: the root itself for the empty path
DirOf(path) == IF path = <<>> THEN RootDir ELSE Append(PathOf(path).v, "/")

\* the stored names under a directory, with the directory stripped
Below(dir) ==
    {SubSeq(n, Len(dir) + 1, Len(n)) : n \in {m \in DOMAIN blobs : IsPrefixSeq(dir, m)}}

\* C11: a listdir(p) that completes returns as directories exactly the
\* distinct first segments of the names under p that contain a further
\* separator, and as files exactly the names immediately under p, with p and
\* its separator stripped.
C11_ListdirPartition ==
    (last.op = "listdir" /\ last.err = "none")
       => /\ last.ret.dirs =
                {Split(n)[1] : n \in {m \in Below(DirOf(last.name)) : Has(m, "/")}}
          /\ last.ret.files = {n \in Below(DirOf(last.name)) : ~Has(n, "/")}

\* the first half of the example: with no root configured, listdir("") over
\* a/b, a/c/d and e yields directory a and file e
C11_ListdirOfRoot ==
    ( /\ last.op = "listdir" /\ last.err = "none"
      /\ location = <<>> /\ last.name = <<>> )
       => /\ last.ret.dirs =
                {Split(n)[1] : n \in {m \in DOMAIN blobs : Has(m, "/")}}
          /\ last.ret.files = {n \in DOMAIN blobs : ~Has(n, "/")}

(***************************************************************************)

(***************************************************************************)
(* SpecUrl: url under every configured default expiry.                     *)
(***************************************************************************)
InitUrl ==
    /\ location \in Locations
    /\ expiration_secs \in Expires
    /\ blobs = [p \in {} |-> <<>>]
    /\ clients = NoClients
    /\ handles = [h \in Handles |-> NoHandle]
    /\ last = NoOp
    /\ arg = [expire |-> Nothing, now |-> 0]
    /\ out = <<>>

\* url(name, expire) called at the time now
UrlCall ==
    \E name \in FacadeNames, expire \in Expires, now \in Times :
       /\ UrlStep(name, expire, now)
       /\ arg' = [expire |-> expire, now |-> now]
       /\ out' = out

NextUrl == UrlCall

SpecUrl == InitUrl /\ [][NextUrl]_vars

\* the expiry url works with: the argument when given, else the default
EffectiveExpiry == IF arg.expire.some THEN arg.expire ELSE expiration_secs

\* C12: url(name, expire) works with the expiry e = expire when given, else
\* the configured default; when e is set and non-zero the result carries a
\* read-only token for the blob that expires e seconds after the call, and
\* when e is 0 or unset no token is generated and the result is unsigned.
C12_SignedUrlGating ==
    (last.op = "url" /\ last.err = "none")
       => IF EffectiveExpiry.some /\ EffectiveExpiry.v # 0
          THEN /\ last.ret.signed
               /\ last.ret.sas_token =
                     [blob |-> last.ret.blob, permission |-> "READ",
                      expiry |-> arg.now + EffectiveExpiry.v]
               /\ \E i \in 1..Len(last.calls) :
                     last.calls[i].api = "generate_blob_shared_access_signature"
          ELSE /\ ~last.ret.signed
               /\ \A i \in 1..Len(last.calls) :
                     last.calls[i].api # "generate_blob_shared_access_signature"

\* url with expire=0 under a non-zero default has returned an unsigned url
C12_Witness ==
    /\ last.op = "url"
    /\ last.err = "none"
    /\ arg.expire = Some(0)
    /\ expiration_secs = Some(60)
    /\ ~last.ret.signed

(***************************************************************************)
(* SpecSave: _save of content sources with and without a content type of   *)
(* their own and on their inner file.                                      *)
(***************************************************************************)
\* the names _save is called with: a, b.a, ./a, a//b, .a, ../a
SaveNames ==
    {<<"a">>, <<"b", ".", "a">>, <<".", "/", "a">>, <<"a", "/", "/", "b">>,
     <<".", "a">>, <<".", ".", "/", "a">>}

\* django Files around an inner file; the content_type attribute of either is
\* missing, None, or a type
TypedContents ==
    {[data |-> <<2>>, pos |-> 1, is_File |-> TRUE,
      content_type |-> own, file_content_type |-> inner] :
        own \in {"absent", "text/own"},
        inner \in {"absent", "None", "text/inner"}}

InitSave ==
    /\ StorageIdle
    /\ arg = [name |-> <<>>, content |-> CHOOSE c \in TypedContents : TRUE]
    /\ out = <<>>

\* _save(name, content)
SaveCall ==
    \E name \in SaveNames, content \in TypedContents, fail \in BOOLEAN :
       /\ SaveStep(name, content, fail)
       /\ arg' = [name |-> name, content |-> content]
       /\ out' = out

NextSave == SaveCall

SpecSave == InitSave /\ [][NextSave]_vars

\* an attribute that is there and holds a value
Present(v) == v # "absent" /\ v # "None"

\* C13: the content type _save uploads with is the first present value of
\* the content source's own content type, its inner file's content type, the
\* guess from the name's extension, and the configured default, in this
\* order; when the source and its inner file both carry one, the source's wins.
C13_ContentTypePriority ==
    (last.op = "_save" /\ last.calls # <<>>)
       => last.calls[1].content_type =
             IF Present(arg.content.content_type) THEN arg.content.content_type
             ELSE IF Present(arg.content.file_content_type)
                  THEN arg.content.file_content_type
             ELSE IF guess_type(last.calls[1].blob) # "None"
                  THEN guess_type(last.calls[1].blob)
             ELSE default_content_type

\* what holds instead: the inner file's content type is looked at first, and
\* the source's own only when the inner file has no such attribute
C13_InnerFileFirst ==
    (last.op = "_save" /\ last.calls # <<>>)
       => last.calls[1].content_type =
             IF Present(arg.content.file_content_type)
             THEN arg.content.file_content_type
             ELSE IF arg.content.file_content_type = "absent"
                     /\ Present(arg.content.content_type)
                  THEN arg.content.content_type
             ELSE IF guess_type(last.calls[1].blob) # "None"
                  THEN guess_type(last.calls[1].blob)
             ELSE default_content_type

\* C14: a _save that completes returns clean_name(name), without the root
\* prefix; normalizing the returned name gives exactly the blob name the
\* content was uploaded under, so exists(returned) is true and a handle
\* opened on the returned name reads the saved content.
C14_ReturnedNameIsCanonical ==
    (last.op = "_save" /\ last.err = "none")
       => /\ last.ret = clean_name(last.name)
          /\ PathOf(last.ret) = Ok(last.calls[1].blob)
          /\ exists(last.ret, FALSE) =
                [err |-> "none", ret |-> TRUE,
                 calls |-> <<Call("exists", last.calls[1].blob, "ok")>>]
          /\ read(AzureStorageFile(last.ret, <<"r">>, PathOf(last.ret).v), FALSE).ret
                = arg.content.data

\* a save under the root r of a name that needed cleaning has completed
C14_Witness ==
    /\ last.op = "_save"
    /\ last.err = "none"
    /\ location = <<"r">>
    /\ last.name = <<"a", "/", "/", "b">>
    /\ last.ret = <<"a", "/", "b">>
    /\ last.calls[1].blob = <<"r", "/", "a", "/", "b">>

(***************************************************************************)
(* SpecMaxLen: get_name_max_len under every root prefix and overwrite      *)
(* policy, and names around the length it returns.                         *)
(***************************************************************************)
\* AzureStorage.get_name_max_len()
get_name_max_len(overwrite_files) ==
    LET max_len == _AZURE_NAME_MAX_LEN
                      - Len(AzureStorage_get_valid_path(location, <<"f", "o", "o">>).v)
                      - Len(<<"f", "o", "o">>)
    IN IF ~overwrite_files
       THEN max_len - Len(<<"_", "1", "2", "3", "4", "5", "6", "7">>)
       ELSE max_len

\* a logical name of n characters
Filler(n) == [i \in 1..n |-> "a"]

\* how far from the returned length the probed name is
Deltas == (0 - 2)..8

InitMaxLen ==
    /\ StorageIdle
    /\ \E ow \in BOOLEAN, d \in Deltas : arg = [overwrite_files |-> ow, delta |-> d]
    /\ out = [pc |-> "start", max_len |-> 0, fitted |-> Pending]

GetNameMaxLen ==
    /\ out.pc = "start"
    /\ out' = [out EXCEPT !.pc = "asked",
                          !.max_len = get_name_max_len(arg.overwrite_files)]
    /\ last' = Last("get_name_max_len", "", <<>>, "none")
    /\ UNCHANGED <<location, expiration_secs, blobs, clients, handles, arg>>

\* normalize a name of max_len + delta characters, with the uniqueness suffix
\* added when files are not overwritten
Probe ==
    /\ out.pc = "asked"
    /\ out.max_len + arg.delta >= 0
    /\ out' = [out EXCEPT
                  !.pc = "probed",
                  !.fitted = AzureStorage_get_valid_path(location,
                                Filler(out.max_len + arg.delta
                                       + IF arg.overwrite_files THEN 0 ELSE 8))]
    /\ last' = Last("_get_valid_path", "", <<>>, out'.fitted.err)
    /\ UNCHANGED <<location, expiration_secs, blobs, clients, handles, arg>>

NextMaxLen == GetNameMaxLen \/ Probe

SpecMaxLen == InitMaxLen /\ [][NextMaxLen]_vars

\* C15: every logical name of the returned length, with the root prefix and,
\* when files are not overwritten, the 8-character suffix, is at most 1024
\* characters, and the returned length is the largest such length: a name
\* one character longer does not fit.
C15_NameMaxLenIsExact ==
    out.pc = "probed"
       => /\ arg.delta <= 0 => out.fitted.err = "none" /\ Len(out.fitted.v) <= 1024
          /\ arg.delta = 1 => out.fitted.err # "none"

\* what holds instead: names of the returned length fit, and so do names up
\* to six characters longer; the seventh does not
C15_NameMaxLenIsSixShort ==
    out.pc = "probed"
       => /\ arg.delta <= 6 => out.fitted.err = "none" /\ Len(out.fitted.v) <= 1024
          /\ arg.delta >= 7 => out.fitted.err = "ValueError"

(***************************************************************************)
(* Opening a handle.                                                       *)
(***************************************************************************)
\* a mode of the supported set: read, write, append, and their + variants
SupportedMode(m) == Has(m, "r") \/ Has(m, "w") \/ Has(m, "a")

\* C16: open(name, mode) rejects a mode outside the supported set when the
\* handle is opened: no open handle has such a mode.
C16_OpenValidatesMode ==
    \A h \in Handles :
       handles[h].state = "open" => SupportedMode(handles[h].mode)

(***************************************************************************)
(* SpecClients: two callers going through the service and custom_service   *)
(* properties of one storage, their steps interleaved. A client is         *)
(* Some(id), the id telling the constructed clients apart.                 *)
(***************************************************************************)
\* the callers
Threads == {"t1", "t2"}

\* the properties, by the field they cache in
Properties == {"service", "custom_service"}

\* accesses each caller makes
MaxAccesses == 2

InitClients ==
    /\ location \in Locations
    /\ expiration_secs = Nothing
    /\ blobs = [p \in {} |-> <<>>]
    \* __init__: self._service = None, self._custom_service = None
    /\ clients = [service |-> Nothing, custom_service |-> Nothing]
    /\ handles = [h \in Handles |-> NoHandle]
    /\ last = NoOp
    /\ arg = <<>>
    /\ out = [pc |-> [t \in Threads |-> "idle"],
              which |-> [t \in Threads |-> "service"],
              fresh |-> [t \in Threads |-> Nothing],
              got |-> [t \in Threads |-> Nothing],
              done |-> [t \in Threads |-> 0],
              built |-> [t \in Threads |-> [p \in Properties |-> 0]],
              next_id |-> 1]

\* a caller reads storage.service or storage.custom_service
Access(t, p) ==
    /\ out.pc[t] = "idle"
    /\ out.done[t] < MaxAccesses
    /\ out' = [out EXCEPT !.pc[t] = "check", !.which[t] = p]
    /\ UNCHANGED <<location, expiration_secs, blobs, clients, handles, last, arg>>

check_always_builds(t) ==
    /\ out.pc[t] = "check"
    /\ out' = [out EXCEPT !.pc[t] = "build"]
    /\ UNCHANGED <<location, expiration_secs, blobs, clients, handles, last, arg>>

\* if self._service is None
Check(t) ==
    /\ out.pc[t] = "check"
    /\ out' = [out EXCEPT !.pc[t] = IF ~clients[out.which[t]].some THEN "build"
                                    ELSE "return"]
    /\ UNCHANGED <<location, expiration_secs, blobs, clients, handles, last, arg>>

\* self._blob_service(...): a new client, not yet stored
Build(t) ==
    /\ out.pc[t] = "build"
    /\ out' = [out EXCEPT !.pc[t] = "assign",
                          !.fresh[t] = Some(out.next_id),
                          !.built[t][out.which[t]] = @ + 1,
                          !.next_id = @ + 1]
    /\ UNCHANGED <<location, expiration_secs, blobs, clients, handles, last, arg>>

\* self._service = the new client
Assign(t) ==
    /\ out.pc[t] = "assign"
    /\ clients' = [clients EXCEPT ![out.which[t]] = out.fresh[t]]
    /\ out' = [out EXCEPT !.pc[t] = "return"]
    /\ UNCHANGED <<location, expiration_secs, blobs, handles, last, arg>>

\* return self._service
Return(t) ==
    /\ out.pc[t] = "return"
    /\ out' = [out EXCEPT !.pc[t] = "idle",
                          !.got[t] = clients[out.which[t]],
                          !.done[t] = @ + 1]
    /\ last' = Last(out.which[t], t, <<>>, "none")
    /\ UNCHANGED <<location, expiration_secs, blobs, clients, handles, arg>>

NextClients ==
    \/ \E t \in Threads, p \in Properties : Access(t, p)
    \/ \E t \in Threads : Check(t)
    \/ \E t \in Threads : Build(t)
    \/ \E t \in Threads : Assign(t)
    \/ \E t \in Threads : Return(t)

SpecClients == InitClients /\ [][NextClients]_vars

\* a caller is between seeing the field of p empty and storing its client
Racing(t, p) == out.which[t] = p /\ out.pc[t] \in {"build", "assign"}

\* C17: an access of a client property whose field is set returns the
\* cached client and builds nothing; every access returns a client, never
\* None; a caller builds at most one client per property, so a race costs at
\* most one redundant client per racing caller; and once the field is set and
\* no caller is still racing on it, the cached client does not change.
C17_LazyClientCaching ==
    [][ /\ \A t \in Threads :
              /\ (out.pc[t] = "check" /\ out'.pc[t] # "check"
                     /\ clients[out.which[t]].some)
                    => out'.pc[t] = "return" /\ out'.built = out.built
              /\ (out.pc[t] = "return" /\ out'.pc[t] = "idle")
                    => out'.got[t].some /\ out'.got[t] = clients[out.which[t]]
              /\ \A p \in Properties : out'.built[t][p] <= 1
        /\ \A p \in Properties :
              (clients[p].some /\ \A t \in Threads : ~Racing(t, p))
                 => /\ clients'[p] = clients[p]
                    /\ \A t \in Threads : ~Racing(t, p)'
        /\ \A p \in Properties : clients[p].some => clients'[p].some
      ]_vars

\* both callers raced on the first access of service: each built a client,
\* both got one, and the race is over
C17_Witness ==
    /\ \A t \in Threads : out.built[t]["service"] = 1 /\ out.got[t].some
    /\ \A t \in Threads : out.pc[t] = "idle" /\ out.which[t] = "service"

(***************************************************************************)
(* Fetching the remote content.                                            *)
(***************************************************************************)
\* C18: open issues no backend call; a fetch is issued only by a read or a
\* write that finds the handle without a buffer and whose mode includes read
\* or append, once, and when it succeeds the handle has its buffer; the first
\* permitted access of such a handle does fetch; a handle whose mode has
\* neither read nor append never fetches, and an access that finds the buffer
\* there reuses it without fetching.
C18_LazyFetchOrdering ==
    [][ /\ last'.op = "open"
           => last'.calls = <<>> /\ blobs' = blobs /\ clients' = clients
        /\ Fetches(last'.calls)
           => /\ last'.op \in {"read", "write"}
              /\ Len(last'.calls) = 1
              /\ ~handles[last'.h].file.open
              /\ Has(handles[last'.h].mode, "r") \/ Has(handles[last'.h].mode, "a")
              /\ last'.err = "none" => handles'[last'.h].file.open
        /\ ( /\ last'.op \in {"read", "write"}
             /\ last'.err # "AttributeError"
             /\ ~handles[last'.h].file.open
             /\ Has(handles[last'.h].mode, "r") \/ Has(handles[last'.h].mode, "a") )
           => Fetches(last'.calls)
      ]_vars

\* a handle opened for reading has been read a second time, from the buffer it
\* fetched at the first read
C18_Witness ==
    /\ last.op = "read"
    /\ last.err = "none"
    /\ last.calls = <<>>
    /\ Has(handles[last.h].mode, "r")
    /\ handles[last.h].file.open

\* C19: a read or write whose fetch fails leaves the handle without a buffer
\* and the store as it was; a close() of a handle without a buffer issues no
\* call and changes nothing, also after an attempted write; a handle whose
\* mode includes read or append gets a buffer only from a fetch that
\* completed, and what close() uploads is the content of that buffer.
C19_FailedFetchNeverUploads ==
    [][ /\ (Fetches(last'.calls) /\ last'.err # "none")
           => /\ ~handles'[last'.h].file.open
              /\ blobs' = blobs
        /\ (last'.op = "close" /\ ~handles[last'.h].file.open)
           => /\ last'.calls = <<>>
              /\ last'.err = "none"
              /\ blobs' = blobs
        /\ \A h \in Handles :
              ( /\ ~handles[h].file.open /\ handles'[h].file.open
                /\ Has(handles'[h].mode, "r") \/ Has(handles'[h].mode, "a") )
                 => /\ last'.h = h
                    /\ Fetches(last'.calls)
                    /\ last'.calls[1].outcome = "ok"
        /\ (last'.op = "close" /\ Saves(last'.calls))
           => /\ handles[last'.h].file.open
              /\ last'.calls[1].stream = handles[last'.h].file.data
      ]_vars

\* a write failed in its fetch, and the close() after it uploaded nothing
C19_Witness ==
    /\ last.op = "close"
    /\ last.err = "none"
    /\ last.calls = <<>>
    /\ handles[last.h].is_dirty
    /\ ~handles[last.h].file.open

(***************************************************************************)
(* Listing and the root prefix.                                            *)
(***************************************************************************)
\* the objects a listing went over: those under the prefix it listed
Listed == {n \in DOMAIN blobs : IsPrefixSeq(last.calls[1].blob, n)}

\* C20: for every root prefix and every path, the empty path included, a
\* list_all(path) or listdir(path) that completes goes over objects under
\* the root only, and list_all returns only names of objects under the root.
C20_ListingStaysUnderRoot ==
    (last.op \in {"list_all", "listdir"} /\ last.err = "none")
       => /\ \A n \in Listed : IsPrefixSeq(RootDir, n)
          /\ last.op = "list_all" => \A n \in last.ret : IsPrefixSeq(RootDir, n)

\* what holds instead: a listing of a non-empty path stays under the root
C20_NonEmptyPathStaysUnderRoot ==
    (last.op \in {"list_all", "listdir"} /\ last.err = "none" /\ last.name # <<>>)
       => /\ IsPrefixSeq(RootDir, last.calls[1].blob)
          /\ \A n \in Listed : IsPrefixSeq(RootDir, n)
          /\ last.op = "list_all" => \A n \in last.ret : IsPrefixSeq(RootDir, n)

====
